---- MODULE Spec2Model ----
(***************************************************************************)
(* TrueOrScam v2: the Gemini call with retry and mock fallback             *)
(* (src/index.js, geminiCallJSON / geminiText / geminiVision).             *)
(*                                                                         *)
(* One behaviour of Spec is one call of the engine.  The upstream          *)
(* endpoint is the environment: every await of fetch either rejects or     *)
(* resolves with one response drawn from Responses.                        *)
(***************************************************************************)
EXTENDS Integers, Sequences, FiniteSets, TLC

(***************************************************************************)
(* Bounds of the model.                                                    *)
(***************************************************************************)
MaxRetries == 3
MaxTextLen == 4

(***************************************************************************)
(* Program constants.                                                      *)
(***************************************************************************)
OverloadStatus == 503
BackoffUnit == 1000
NetworkRetryDelay == 500

(***************************************************************************)
(* Inputs.                                                                 *)
(*                                                                         *)
(* A prompt is represented by the set of mockFromPrompt's keyword markers  *)
(* that its lower-cased text includes.  A model reply text is a sequence   *)
(* of characters over Chars: "{" and "}" are the braces, "k" stands for a  *)
(* run of other characters: a member key with its colon ("key":) where an  *)
(* object expects one, plain prose elsewhere.                              *)
(***************************************************************************)
Keywords == {"verify this claim", "headline", "video url", "image"}
Prompts == SUBSET Keywords

Keys == {"", "MOCK", "real-key"}
Wrappers == {"geminiText", "geminiVision"}

Chars == {"{", "}", "k"}
Texts == UNION {[1..n -> Chars] : n \in 0..MaxTextLen}

Statuses == {200, 403, 500, 503}

\* The bodies an upstream response can have, by what JSON.parse makes of them:
\*   raw         not JSON (JSON.parse throws, data = {})
\*   null        the JSON literal null (data = null)
\*   error       {"error":{"message":m}}
\*   candidates  {"candidates":[{"content":{"parts":[{"text":t}]}}]}
Bodies ==
    {[kind |-> "raw", bodyText |-> b, message |-> "", text |-> <<>>] :
        b \in {"", "Service Unavailable"}}
    \cup {[kind |-> "null", bodyText |-> "null", message |-> "", text |-> <<>>]}
    \cup {[kind |-> "error", bodyText |-> "{json}", message |-> m, text |-> <<>>] :
        m \in {"", "forbidden"}}
    \cup {[kind |-> "candidates", bodyText |-> "{json}", message |-> "", text |-> t] :
        t \in Texts}

Responses ==
    {[status |-> s, kind |-> b.kind, bodyText |-> b.bodyText,
      message |-> b.message, text |-> b.text] : s \in Statuses, b \in Bodies}

(***************************************************************************)
(* JSON objects over Chars:  Obj ::= "{" "}"  |  "{" "k" Obj "}"           *)
(***************************************************************************)
RECURSIVE IsJsonObject(_)
IsJsonObject(s) ==
    /\ Len(s) >= 2
    /\ s[1] = "{"
    /\ s[Len(s)] = "}"
    /\ \/ Len(s) = 2
       \/ /\ Len(s) >= 5
          /\ s[2] = "k"
          /\ IsJsonObject(SubSeq(s, 3, Len(s) - 1))

\* text.match(/\{[\s\S]*\}/): from the first "{" to the last "}" after it;
\* <<>> stands for no match (a match has at least two characters).
RegexMatch(text) ==
    LET opens == {n \in 1..Len(text) : text[n] = "{"}
        closes == {n \in 1..Len(text) : text[n] = "}"}
    IN  IF opens = {} THEN <<>>
        ELSE LET f == CHOOSE n \in opens : \A m \in opens : n <= m
                 after == {n \in closes : n > f}
             IN  IF after = {} THEN <<>>
                 ELSE LET l == CHOOSE n \in after : \A m \in after : m <= n
                      IN  SubSeq(text, f, l)

(***************************************************************************)
(* Outcomes.  keys is the set of own properties of the returned object;    *)
(* a parsed reply is represented by its source text in json.               *)
(***************************************************************************)
NoOutcome ==
    [keys |-> {}, verdict |-> "", risk |-> "", _mock |-> FALSE, _fallback |-> "",
     _error |-> "", status |-> 0, message |-> "", raw |-> <<>>, json |-> <<>>]

mockFromPrompt(p) ==
    IF "verify this claim" \in p \/ "headline" \in p
    THEN [NoOutcome EXCEPT !.keys = {"verdict", "checks", "what_to_collect", "advice"},
                           !.verdict = "unverified"]
    ELSE IF "video url" \in p
    THEN [NoOutcome EXCEPT !.keys = {"risk", "signals", "advice"},
                           !.risk = "suspicious"]
    ELSE IF "image" \in p
    THEN [NoOutcome EXCEPT !.keys = {"verdict", "indicators", "advice"},
                           !.verdict = "uncertain"]
    ELSE [NoOutcome EXCEPT !.keys = {"risk", "signals", "advice"},
                           !.risk = "suspicious"]

\* { ...mockFromPrompt(text), _mock: true }
WithMock(m) == [m EXCEPT !.keys = @ \cup {"_mock"}, !._mock = TRUE]

\* { ...mockFromPrompt(text), _fallback: reason }
FallbackUntagged(m, reason) == m
WithFallback(m, reason) == [m EXCEPT !.keys = @ \cup {"_fallback"}, !._fallback = reason]

\* { _error: `Gemini error ${resp.status}: ${msg}` }
UpstreamError(status, msg) ==
    [NoOutcome EXCEPT !.keys = {"_error"}, !._error = "Gemini error",
                      !.status = status, !.message = msg]

\* { _error: "Bad/empty JSON from Gemini", raw: text }
BadJson(text) ==
    [NoOutcome EXCEPT !.keys = {"_error", "raw"},
                      !._error = "Bad/empty JSON from Gemini", !.raw = text]

\* JSON.parse(m[0])
Parsed(m) == [NoOutcome EXCEPT !.json = m]

(***************************************************************************)
(* One iteration of the for loop of geminiCallJSON, as a function of the   *)
(* response.  A step is sleep (setTimeout then continue), return or throw. *)
(***************************************************************************)
Sleep(ms) == [op |-> "sleep", wait |-> ms, outcome |-> NoOutcome]
Return(o) == [op |-> "return", wait |-> 0, outcome |-> o]
Throw == [op |-> "throw", wait |-> 0, outcome |-> NoOutcome]

MockModeSentinelOnly(key) == key = "MOCK"
MockMode(key) == key = "" \/ key = "MOCK"

IsOverloadAny5xx(status) == status >= 500
IsOverload(status) == status = OverloadStatus

Ok(status) == status >= 200 /\ status <= 299

AttemptsRemainOffByOne(i, retries) == i < retries
AttemptsRemain(i, retries) == i < retries - 1

BackoffFlat(i) == BackoffUnit
Backoff(i) == (i + 1) * BackoffUnit

CatchWaitLinear(i) == (i + 1) * NetworkRetryDelay
CatchWait(i) == NetworkRetryDelay

\* data?.error?.message || bodyText || "unknown"
ErrorMessage(resp) ==
    IF resp.kind = "error" /\ resp.message # "" THEN resp.message
    ELSE IF resp.bodyText # "" THEN resp.bodyText
    ELSE "unknown"

\* catch (e) { ... }
CatchAlwaysRetries(i, retries, prompt) == Sleep(CatchWait(i))
Catch(i, retries, prompt) ==
    IF AttemptsRemain(i, retries)
    THEN Sleep(CatchWait(i))
    ELSE Return(WithFallback(mockFromPrompt(prompt), "network_error"))

\* the body of try { ... } after fetch has resolved with resp
TryBody(resp, i, retries, prompt) ==
    IF IsOverload(resp.status)
    THEN IF AttemptsRemain(i, retries)
         THEN Sleep(Backoff(i))
         ELSE Return(WithFallback(mockFromPrompt(prompt), "gemini_503"))
    ELSE IF ~Ok(resp.status)
    THEN Return(UpstreamError(resp.status, ErrorMessage(resp)))
    ELSE IF resp.kind = "null"
    THEN Throw   \* data.candidates on null: TypeError
    ELSE LET text == resp.text
             m == RegexMatch(text)
         IN  IF m # <<>> /\ IsJsonObject(m)
             THEN Return(Parsed(m))
             ELSE Return(BadJson(text))

\* try { ... } catch (e) { ... }: what is thrown inside the try is caught
TryUncaught(resp, i, retries, prompt) == TryBody(resp, i, retries, prompt)
Try(resp, i, retries, prompt) ==
    LET s == TryBody(resp, i, retries, prompt)
    IN  IF s.op = "throw" THEN Catch(i, retries, prompt) ELSE s

\* What the handler has read of a completed attempt: the status (0 when
\* fetch rejected), the reply text of a 2xx response and the message of a
\* rejected one.
Rejected == [status |-> 0, text |-> <<>>, message |-> ""]
LogEntry(resp) ==
    [status |-> resp.status,
     text |-> IF Ok(resp.status) THEN resp.text ELSE <<>>,
     message |-> IF ~Ok(resp.status) /\ ~IsOverload(resp.status)
                 THEN ErrorMessage(resp) ELSE ""]

(***************************************************************************)
(* The server around the engine (src/index.js, POST /api/detect): the      *)
(* requests being handled and the response cache.  The values a handler    *)
(* starts from are defined here; its steps follow the engine's.            *)
(***************************************************************************)
Requests == {"r1", "r2"}

\* req.file / req.body as the handler reads them.  input and context are
\* sequences of words.
NoInput ==
    [file |-> FALSE, uploadErr |-> FALSE, readErr |-> FALSE, bodyOk |-> TRUE,
     input |-> <<>>, context |-> <<>>]

\* the result of checkSafeBrowsing: flagged and raw.disabled
NoSb == [flagged |-> FALSE, disabled |-> FALSE]

\* what res.status(..).json(..) has sent: keys is the set of properties of
\* the JSON body
NoResponse ==
    [status |-> 0, keys |-> {}, mode |-> "", type |-> "", detected |-> "",
     verdict |-> "", safeBrowsing |-> "", cached |-> FALSE, url |-> <<>>,
     ai |-> NoOutcome]

\* one activation of the handler: where it is (rpc), what it has read and
\* awaited so far, what it has sent, and what it has called
NewReq ==
    [rpc |-> "new", route |-> "", req |-> NoInput, sb |-> NoSb, html |-> {},
     res |-> NoResponse, sent |-> 0, engineCalls |-> 0, collectorCalls |-> 0, cacheGets |-> 0,
     cacheSets |-> 0]

\* the last getCache call: its key and what it returned
NoGet == [key |-> <<>>, found |-> FALSE, d |-> NoResponse]

(***************************************************************************)
(* State.                                                                  *)
(***************************************************************************)
VARIABLES
    GEMINI_KEY,  \* process.env.GEMINI_API_KEY ("" when unset)
    fn,          \* the function running: the wrapper called, then geminiCallJSON
    prompt,      \* keyword markers the prompt text includes
    retries,     \* the retries option (maxAttempts)
    pc,          \* call, loop, fetch, sleep, done, threw
    i,           \* loop index
    posts,       \* HTTP POSTs issued
    inflight,    \* fetches issued and not yet settled
    timer,       \* the pending setTimeout delay (0: none)
    waits,       \* the delays slept so far, in order
    log,         \* one LogEntry per settled attempt
    outcome,     \* the value returned (NoOutcome before the return)
    SB_KEY,      \* whether process.env.GOOGLE_SAFE_BROWSING_KEY is set
    h,           \* the handler activations, one per request
    cache,       \* the Map cache: key -> [d, t]
    now,         \* Date.now()
    lastSet,     \* history: per key, the last setCache ([d, t, by])
    got,         \* history: the last getCache call
    max,         \* the max option of rateLimit
    hits,        \* the Map hits of rateLimit: ip -> [count, start]
    hitLog       \* history: per request through rateLimit, [ip, at, passed]

evars == <<fn, prompt, retries, pc, i, posts, inflight, timer, waits, log, outcome>>
svars == <<SB_KEY, h, cache, now, lastSet, got>>
lvars == <<max, hits, hitLog>>
vars == <<GEMINI_KEY, evars, svars, lvars>>

\* no request has arrived and the cache is empty
ServerIdle ==
    /\ SB_KEY = FALSE
    /\ h = [r \in Requests |-> NewReq]
    /\ cache = <<>>
    /\ now = 0
    /\ lastSet = <<>>
    /\ got = NoGet

\* rateLimit() with its defaults, before any request
DefaultWindowMs == 60000
DefaultMax == 60
LimiterIdle ==
    /\ max = DefaultMax
    /\ hits = <<>>
    /\ hitLog = <<>>

Init ==
    /\ GEMINI_KEY \in Keys
    /\ fn \in Wrappers
    /\ prompt \in Prompts
    /\ retries \in 0..MaxRetries
    /\ pc = "call"
    /\ i = 0
    /\ posts = 0
    /\ inflight = 0
    /\ timer = 0
    /\ waits = <<>>
    /\ log = <<>>
    /\ outcome = NoOutcome
    /\ ServerIdle
    /\ LimiterIdle

\* parts?.map((p) => p.text).join("\n"): the keywords of the prompt part
\* (join renders the undefined text of an inlineData part as "")
PartsText == prompt

\* geminiVision in mock mode: mockFromPrompt("image " + prompt)
GeminiVisionMock ==
    /\ pc = "call"
    /\ fn = "geminiVision"
    /\ MockMode(GEMINI_KEY)
    /\ outcome' = WithMock(mockFromPrompt(prompt \cup {"image"}))
    /\ pc' = "done"
    /\ UNCHANGED <<GEMINI_KEY, fn, prompt, retries, i, posts, inflight, timer,
                   waits, log>>
    /\ UNCHANGED <<svars, lvars>>

\* geminiText -> geminiCallJSON in mock mode
GeminiCallJSONMock ==
    /\ pc = "call"
    /\ fn = "geminiText"
    /\ MockMode(GEMINI_KEY)
    /\ fn' = "geminiCallJSON"
    /\ outcome' = WithMock(mockFromPrompt(PartsText))
    /\ pc' = "done"
    /\ UNCHANGED <<GEMINI_KEY, prompt, retries, i, posts, inflight, timer,
                   waits, log>>
    /\ UNCHANGED <<svars, lvars>>

\* either wrapper with a credential calls geminiCallJSON({ parts }), which
\* enters the for loop with i = 0
EnterLoop ==
    /\ pc = "call"
    /\ ~MockMode(GEMINI_KEY)
    /\ fn' = "geminiCallJSON"
    /\ pc' = "loop"
    /\ i' = 0
    /\ UNCHANGED <<GEMINI_KEY, prompt, retries, posts, inflight, timer,
                   waits, log, outcome>>
    /\ UNCHANGED <<svars, lvars>>

\* i < retries: await fetch(url, { method: "POST", ... })
ForLoopNoAwait ==
    /\ pc \in {"loop", "sleep"}
    /\ i < retries
    /\ pc' = "fetch"
    /\ posts' = posts + 1
    /\ inflight' = inflight + 1
    /\ UNCHANGED <<GEMINI_KEY, fn, prompt, retries, i, timer, waits, log, outcome>>
    /\ UNCHANGED <<svars, lvars>>

ForLoop ==
    /\ pc = "loop"
    /\ i < retries
    /\ pc' = "fetch"
    /\ posts' = posts + 1
    /\ inflight' = inflight + 1
    /\ UNCHANGED <<GEMINI_KEY, fn, prompt, retries, i, timer, waits, log, outcome>>
    /\ UNCHANGED <<svars, lvars>>

\* the loop ends without a return: the "Shouldn't reach here" fallback
FallThrough ==
    /\ pc = "loop"
    /\ ~(i < retries)
    /\ outcome' = WithFallback(mockFromPrompt(PartsText), "unknown")
    /\ pc' = "done"
    /\ UNCHANGED <<GEMINI_KEY, fn, prompt, retries, i, posts, inflight, timer,
                   waits, log>>
    /\ UNCHANGED <<svars, lvars>>

\* the effect of one step of the loop body on the state
Apply(s) ==
    /\ inflight' = inflight - 1
    /\ CASE s.op = "sleep" ->
              /\ pc' = "sleep"
              /\ timer' = s.wait
              /\ waits' = Append(waits, s.wait)
              /\ UNCHANGED outcome
         [] s.op = "return" ->
              /\ pc' = "done"
              /\ outcome' = s.outcome
              /\ UNCHANGED <<timer, waits>>
         [] OTHER ->
              /\ pc' = "threw"
              /\ UNCHANGED <<timer, waits, outcome>>
    /\ UNCHANGED <<GEMINI_KEY, fn, prompt, retries, i, posts>>
    /\ UNCHANGED <<svars, lvars>>

\* fetch resolves with a response
FetchResolves ==
    /\ pc = "fetch"
    /\ \E resp \in Responses :
          /\ log' = Append(log, LogEntry(resp))
          /\ Apply(Try(resp, i, retries, PartsText))

\* fetch (or resp.text()) rejects: timeout, connection error
FetchRejects ==
    /\ pc = "fetch"
    /\ log' = Append(log, Rejected)
    /\ Apply(Catch(i, retries, PartsText))

\* the setTimeout promise resolves; continue; i++
TimerFires ==
    /\ pc = "sleep"
    /\ pc' = "loop"
    /\ i' = i + 1
    /\ timer' = 0
    /\ UNCHANGED <<GEMINI_KEY, fn, prompt, retries, posts, inflight, waits,
                   log, outcome>>
    /\ UNCHANGED <<svars, lvars>>

Next ==
    \/ GeminiVisionMock
    \/ GeminiCallJSONMock
    \/ EnterLoop
    \/ ForLoop
    \/ FallThrough
    \/ FetchResolves
    \/ FetchRejects
    \/ TimerFires

Spec == Init /\ [][Next]_vars

(***************************************************************************)
(* Vocabulary of the properties.                                           *)
(***************************************************************************)
NoCredential == GEMINI_KEY = "" \/ GEMINI_KEY = "MOCK"
Returned == pc = "done"

IsParsed(o) == o.json # <<>>
IsHardError(o) == "_error" \in o.keys
IsMockVerdict(o) == "advice" \in o.keys

ExactlyOneKind(o) ==
    \/ IsParsed(o) /\ ~IsHardError(o) /\ ~IsMockVerdict(o)
    \/ ~IsParsed(o) /\ IsHardError(o) /\ ~IsMockVerdict(o)
    \/ ~IsParsed(o) /\ ~IsHardError(o) /\ IsMockVerdict(o)

IsRejection(status) == status # 0 /\ ~(status \in 200..299) /\ status # 503

AllStatus(s) == \A n \in 1..Len(log) : log[n].status = s

\* the spans of text that are JSON objects, and the outermost of them
ObjectSpans(text) ==
    {sp \in (1..Len(text)) \X (1..Len(text)) :
        sp[1] < sp[2] /\ IsJsonObject(SubSeq(text, sp[1], sp[2]))}
TopSpans(text) ==
    {sp \in ObjectSpans(text) :
        \A t \in ObjectSpans(text) : (t[1] <= sp[1] /\ sp[2] <= t[2]) => t = sp}
ContainsObject(text) == ObjectSpans(text) # {}

TypeOK ==
    /\ pc \in {"call", "loop", "fetch", "sleep", "done", "threw"}
    /\ i \in 0..MaxRetries
    /\ posts \in 0..MaxRetries
    /\ inflight \in 0..1

(***************************************************************************)
(* C1.  With maxAttempts >= 1, whatever the upstream results are, a call   *)
(* issues at most maxAttempts attempts, no exception escapes it, and what  *)
(* it returns is exactly one of a parsed verdict, a mock verdict and a     *)
(* hard error; nothing is returned before.  It terminates: until it has    *)
(* returned a step is always possible, and every step decreases            *)
(* StepsLeft, which is never negative.                                     *)
(***************************************************************************)
StepsLeft ==
    CASE pc = "call" -> 3 * retries + 2
      [] pc = "loop" -> 3 * (retries - i) + 1
      [] pc = "fetch" -> 3 * (retries - i)
      [] pc = "sleep" -> 3 * (retries - i) - 1
      [] OTHER -> 0
C1_Safe ==
    retries >= 1 =>
        /\ pc # "threw"
        /\ posts <= retries
        /\ Len(log) <= retries
        /\ Returned => ExactlyOneKind(outcome)
        /\ ~Returned => (outcome = NoOutcome /\ ENABLED Next)
        /\ StepsLeft >= 0
C1_OneOutcome == []C1_Safe /\ [][retries >= 1 => StepsLeft' < StepsLeft]_vars
C1_Witness ==
    /\ Returned /\ retries >= 3 /\ posts = 3
    /\ log[1].status = 503 /\ log[2].status = 0 /\ log[3].status = 200
    /\ IsParsed(outcome)

(***************************************************************************)
(* C2.  Without a credential, or with the MOCK sentinel, a call (text or   *)
(* vision) issues no POST, sleeps no backoff and returns at once a         *)
(* verdict of mockFromPrompt tagged _mock.                                 *)
(***************************************************************************)
C2_MockModeIsLocal ==
    NoCredential =>
        /\ posts = 0 /\ inflight = 0 /\ log = <<>>
        /\ waits = <<>> /\ timer = 0
        /\ pc \in {"call", "done"}
        /\ Returned =>
              /\ IsMockVerdict(outcome) /\ ~IsHardError(outcome) /\ ~IsParsed(outcome)
              /\ outcome._mock /\ "_mock" \in outcome.keys
C2_Witness ==
    /\ Returned /\ GEMINI_KEY = "" /\ fn = "geminiVision"
    /\ outcome._mock /\ posts = 0

C4_TransportExhausts ==
    (Returned /\ ~NoCredential /\ retries >= 1 /\ AllStatus(0)) =>
        /\ posts = retries /\ Len(log) = retries
        /\ waits = [n \in 1..(retries - 1) |-> 500]
        /\ timer = 0
        /\ IsMockVerdict(outcome) /\ ~IsHardError(outcome) /\ ~IsParsed(outcome)
        /\ outcome._fallback = "network_error"
C4_Witness ==
    /\ Returned /\ ~NoCredential /\ retries = 3 /\ AllStatus(0)
    /\ waits = <<500, 500>> /\ outcome._fallback = "network_error"

(***************************************************************************)
(* C5.  An attempt answered with a failure status other than 503 ends the  *)
(* call: it is the last attempt, no wait follows it, and the result is a   *)
(* hard error with that status and the upstream message, never a mock,     *)
(* however many attempts remain.                                           *)
(***************************************************************************)
C5_RejectionIsFinal ==
    \A n \in 1..Len(log) :
        IsRejection(log[n].status) =>
            /\ n = Len(log) /\ posts = n /\ inflight = 0
            /\ Len(waits) = n - 1 /\ timer = 0
            /\ Returned
            /\ IsHardError(outcome) /\ ~IsMockVerdict(outcome) /\ ~IsParsed(outcome)
            /\ outcome._fallback = "" /\ ~outcome._mock
            /\ outcome.status = log[n].status
            /\ outcome.message = log[n].message /\ outcome.message # ""
C5_Witness ==
    /\ Returned /\ retries = 3 /\ Len(log) = 2
    /\ log[1].status = 503 /\ log[2].status = 403
    /\ outcome.status = 403 /\ outcome.message = "forbidden"

(***************************************************************************)
(* C6.  A 2xx response whose reply text contains no JSON object ends the   *)
(* call with a hard error carrying that text as raw: the attempt is the    *)
(* last one, no wait follows it and no mock verdict is returned.           *)
(***************************************************************************)
C6_NoJsonIsHardError ==
    \A n \in 1..Len(log) :
        (Ok(log[n].status) /\ ~ContainsObject(log[n].text)) =>
            /\ n = Len(log) /\ Len(waits) = n - 1 /\ timer = 0
            /\ Returned
            /\ IsHardError(outcome) /\ ~IsMockVerdict(outcome) /\ ~IsParsed(outcome)
            /\ "raw" \in outcome.keys /\ outcome.raw = log[n].text

(***************************************************************************)
(* C7.  k answers of 503 (0 <= k < maxAttempts) followed by a 2xx whose    *)
(* reply text contains a JSON object: the call returns the parsed object,  *)
(* neither a mock nor an error, after exactly k + 1 attempts and waits of  *)
(* 1000, 2000, ..., k * 1000.                                              *)
(***************************************************************************)
C7_OverloadThenSuccess ==
    (/\ Returned /\ ~NoCredential /\ Len(log) >= 1
     /\ \A n \in 1..(Len(log) - 1) : log[n].status = 503
     /\ Ok(log[Len(log)].status)
     /\ ContainsObject(log[Len(log)].text)) =>
        /\ IsParsed(outcome) /\ ~IsMockVerdict(outcome) /\ ~IsHardError(outcome)
        /\ posts = Len(log)
        /\ waits = [n \in 1..(Len(log) - 1) |-> n * 1000]

(***************************************************************************)
(* C8.  Every mock verdict the engine returns carries the _mock tag (the   *)
(* claim as stated), and as amended: carries _mock when it is returned     *)
(* for want of a credential, and _fallback with the reason when it is      *)
(* returned after the attempts are exhausted.                              *)
(***************************************************************************)
C8_MockTagAlways ==
    (Returned /\ retries >= 1 /\ IsMockVerdict(outcome)) =>
        outcome._mock /\ "_mock" \in outcome.keys
C8_MockOrFallbackTag ==
    (Returned /\ IsMockVerdict(outcome)) =>
        IF NoCredential
        THEN /\ outcome._mock /\ "_mock" \in outcome.keys
             /\ "_fallback" \notin outcome.keys
        ELSE /\ "_fallback" \in outcome.keys /\ "_mock" \notin outcome.keys
             /\ outcome._fallback \in {"gemini_503", "network_error", "unknown"}
             /\ (outcome._fallback = "gemini_503") =
                    (retries >= 1 /\ log[Len(log)].status = 503)
C8_Witness ==
    /\ Returned /\ ~NoCredential /\ retries = 2
    /\ log[1].status = 0 /\ log[2].status = 503
    /\ IsMockVerdict(outcome) /\ outcome._fallback = "gemini_503"

(***************************************************************************)
(* C9.  A 2xx reply text with exactly one outermost JSON object, whatever  *)
(* surrounds it (braces included): the call returns that object parsed.    *)
(***************************************************************************)
C9_ExtractsTheObject ==
    (/\ Returned /\ Len(log) >= 1
     /\ Ok(log[Len(log)].status)
     /\ Cardinality(TopSpans(log[Len(log)].text)) = 1) =>
        LET text == log[Len(log)].text
            sp == CHOOSE x \in TopSpans(text) : TRUE
        IN  IsParsed(outcome) /\ outcome.json = SubSeq(text, sp[1], sp[2])

(***************************************************************************)
(* C10.  Attempts are sequential: at most one fetch is in flight, each     *)
(* attempt is one POST, and a POST is issued only when the previous        *)
(* attempt has settled and the wait that followed it has elapsed.          *)
(***************************************************************************)
C10_State ==
    /\ inflight \in {0, 1}
    /\ (inflight = 1) = (pc = "fetch")
    /\ posts = Len(log) + inflight
    /\ (timer # 0) = (pc = "sleep")
    /\ timer # 0 => Len(waits) = Len(log) /\ waits[Len(waits)] = timer
C10_Issue ==
    posts' # posts =>
        /\ posts' = posts + 1
        /\ inflight = 0 /\ timer = 0
        /\ Len(log) = posts /\ Len(waits) = posts
        /\ i = posts
C10_Sequential == []C10_State /\ [][C10_Issue]_vars
C10_Witness ==
    /\ pc = "fetch" /\ posts = 3 /\ inflight = 1
    /\ Len(log) = 2 /\ waits = <<1000, 500>>

(***************************************************************************)
(* C17.  With a credential, 503 answers and transport errors share one     *)
(* attempt budget: never more than maxAttempts POSTs; the wait after a 503 *)
(* on attempt n is n * 1000 however many earlier attempts were transport   *)
(* errors, the wait after a transport error is 500; and when all attempts  *)
(* fail in these two ways the fallback reason is that of the last one.     *)
(***************************************************************************)
MixedFailures == \A n \in 1..Len(log) : log[n].status \in {503, 0}
MaxTicks == 2

DefaultRetries == 3
DefaultTtl == 600000
TickSteps == {1, DefaultTtl}

Range(f) == {f[x] : x \in DOMAIN f}

\* the keyword markers of mockFromPrompt that a text includes
KeywordsOf(words) == Range(words) \cap Keywords

\* (input || "").trim()
RECURSIVE TrimStart(_)
TrimStart(words) ==
    IF words # <<>> /\ Head(words) = " " THEN TrimStart(Tail(words)) ELSE words
RECURSIVE TrimEnd(_)
TrimEnd(words) ==
    IF words # <<>> /\ words[Len(words)] = " "
    THEN TrimEnd(SubSeq(words, 1, Len(words) - 1)) ELSE words
Trim(words) == TrimEnd(TrimStart(words))

\* new URL(u).toString() lower-cases the scheme and the host
LowerCase(w) ==
    CASE w = "HTTPS:" -> "https:"
      [] w = "HOST" -> "host"
      [] OTHER -> w

\* normalizeUrl: <<>> stands for null.  A URL is a scheme, a host and the
\* rest; new URL throws on anything else.
normalizeUrl(u) ==
    IF Len(u) >= 2 /\ LowerCase(u[1]) \in {"https:", "http:", "ftp:"} /\ u[2] # " "
    THEN IF LowerCase(u[1]) \in {"https:", "http:"}
         THEN [n \in 1..Len(u) |-> IF n <= 2 THEN LowerCase(u[n]) ELSE u[n]]
         ELSE <<>>
    ELSE <<>>

ImageExts == {".png", ".jpg"}
VideoHosts == {"youtube.com", "youtu.be", "vimeo.com"}
EndsAt(u, n) == n = Len(u) \/ u[n + 1] \in {"?", "#"}

\* /\.(png|jpe?g|gif|webp|bmp|tiff?)(\?|#|$)/i.test(u)
isLikelyImageUrl(u) == \E n \in 1..Len(u) : u[n] \in ImageExts /\ EndsAt(u, n)

\* /(youtube\.com|youtu\.be|vimeo\.com|\.mp4(\?|#|$))/i.test(u)
isLikelyVideoUrl(u) ==
    \E n \in 1..Len(u) : u[n] \in VideoHosts \/ (u[n] = ".mp4" /\ EndsAt(u, n))

\* `url:${url}:${context || ""}`
CacheKeyNoContext(url, context) == <<"url:">> \o url
CacheKey(url, context) == <<"url:">> \o url \o <<":">> \o context

(***************************************************************************)
(* The cache.                                                              *)
(***************************************************************************)
\* cache.set(k, { d, t: Date.now() + ttl })
setCacheIfAbsent(c, k, d, ttl, t) ==
    IF k \in DOMAIN c THEN c
    ELSE [x \in DOMAIN c \cup {k} |-> IF x = k THEN [d |-> d, t |-> t + ttl] ELSE c[x]]
setCache(c, k, d, ttl, t) ==
    [x \in DOMAIN c \cup {k} |-> IF x = k THEN [d |-> d, t |-> t + ttl] ELSE c[x]]

\* getCache: whether it returns a value, which, and the Map it leaves
ExpiredAtOrAfter(t, expiry) == t >= expiry
Expired(t, expiry) == t > expiry
getCacheFound(c, k, t) == k \in DOMAIN c /\ ~Expired(t, c[k].t)
getCacheValue(c, k, t) == IF getCacheFound(c, k, t) THEN c[k].d ELSE NoResponse
getCacheLeaves(c, k, t) ==
    IF k \in DOMAIN c /\ Expired(t, c[k].t)
    THEN [x \in DOMAIN c \ {k} |-> c[x]]
    ELSE c

(***************************************************************************)
(* The engine as the handler calls it.                                     *)
(***************************************************************************)
RejectedFetch ==
    [status |-> 0, kind |-> "reject", bodyText |-> "", message |-> "", text |-> <<>>]
SampleResults ==
    {RejectedFetch,
     [status |-> 503, kind |-> "raw", bodyText |-> "Service Unavailable",
      message |-> "", text |-> <<>>],
     [status |-> 403, kind |-> "error", bodyText |-> "{json}",
      message |-> "forbidden", text |-> <<>>],
     [status |-> 200, kind |-> "candidates", bodyText |-> "{json}",
      message |-> "", text |-> <<>>],
     [status |-> 200, kind |-> "candidates", bodyText |-> "{json}",
      message |-> "", text |-> <<"{", "}">>]}
\* for (let i = 0; i < retries; i++) { try { ... } catch { ... } } and the
\* fallback after it: the outcomes it can return from attempt k on
RECURSIVE GeminiLoop(_, _, _)
GeminiLoop(k, n, p) ==
    IF ~(k < n) THEN {WithFallback(mockFromPrompt(p), "unknown")}
    ELSE UNION {LET st == IF x.status = 0 THEN Catch(k, n, p) ELSE Try(x, k, n, p)
                IN  IF st.op = "return" THEN {st.outcome} ELSE GeminiLoop(k + 1, n, p)
                : x \in SampleResults}

\* the outcomes a call can return
geminiCallJSON(key, p) ==
    IF MockMode(key) THEN {WithMock(mockFromPrompt(p))}
    ELSE GeminiLoop(0, DefaultRetries, p)

geminiText(key, p) == geminiCallJSON(key, p)

geminiVision(key, p) ==
    IF MockMode(key) THEN {WithMock(mockFromPrompt(p \cup {"image"}))}
    ELSE geminiCallJSON(key, p)

\* the properties of a parsed reply that the handler reads ("": absent)
ReplyFields ==
    {[risk |-> "", verdict |-> ""],
     [risk |-> "safe", verdict |-> ""],
     [risk |-> "likely scam", verdict |-> ""],
     [risk |-> "", verdict |-> "authentic"],
     [risk |-> "", verdict |-> "likely false"]}
WithFields(o, f) ==
    [o EXCEPT !.risk = f.risk, !.verdict = f.verdict,
              !.keys = {x \in {"risk", "verdict"} :
                           (x = "risk" /\ f.risk # "") \/ (x = "verdict" /\ f.verdict # "")}]
Replies(o) == IF o.json # <<>> THEN {WithFields(o, f) : f \in ReplyFields} ELSE {o}

\* a || b on strings
OrElse(a, b) == IF a # "" THEN a ELSE b

(***************************************************************************)
(* The prompts, as the keyword markers they include: those of the template *)
(* and those of the interpolated url, page and context.                    *)
(***************************************************************************)
ImageUrlPrompt(url, context) == {"image"} \cup KeywordsOf(url) \cup KeywordsOf(context)
VideoUrlPrompt(url, context) == {"video url"} \cup KeywordsOf(url) \cup KeywordsOf(context)
LinkPrompt(url, html, context) == KeywordsOf(url) \cup html \cup KeywordsOf(context)
FilePrompt(context) == {"image"} \cup KeywordsOf(context)
ClaimPrompt(trimmed, context) ==
    {"verify this claim", "headline"} \cup KeywordsOf(trimmed) \cup KeywordsOf(context)
(***************************************************************************)
(* The collaborators of detectByUrl.                                       *)
(***************************************************************************)
SbFetches == {"rejects", "not ok", "no matches", "matches"}
Threw == [op |-> "throw", sb |-> NoSb]

\* checkSafeBrowsing, on whether the key is configured and on what its
\* fetch does; nothing in it catches a rejected fetch
checkSafeBrowsing(key, x) ==
    IF ~key THEN [op |-> "return", sb |-> [flagged |-> FALSE, disabled |-> TRUE]]
    ELSE IF x = "rejects" THEN Threw
    ELSE IF x = "not ok"
    THEN [op |-> "return", sb |-> [flagged |-> FALSE, disabled |-> FALSE]]
    ELSE [op |-> "return", sb |-> [flagged |-> x = "matches", disabled |-> FALSE]]

\* inspectPage never throws; of its result the prompt keeps the keyword
\* markers of the page (content type and HTML snippet)
PageTexts == {{}, {"image"}}

(***************************************************************************)
(* The results of detection and the responses.                             *)
(***************************************************************************)
ImageUrlResult(ai) ==
    [NoResponse EXCEPT !.keys = {"type", "verdict", "safeBrowsing", "ai"},
                       !.type = "image_url",
                       !.verdict = OrElse(ai.verdict, "unverified"),
                       !.safeBrowsing = "n/a", !.ai = ai]

VideoUrlResult(ai) ==
    [NoResponse EXCEPT !.keys = {"type", "verdict", "thumbnailUrl", "ai"},
                       !.type = "video_url",
                       !.verdict = OrElse(ai.risk, "unverified"), !.ai = ai]

LinkResultTrustsEngine(sb, ai) ==
    [NoResponse EXCEPT !.keys = {"type", "verdict", "safeBrowsing", "signals", "ai"},
                       !.type = "link",
                       !.verdict = OrElse(ai.risk, IF sb.flagged THEN "likely scam" ELSE "clear"),
                       !.safeBrowsing = IF sb.disabled THEN "disabled"
                                        ELSE IF sb.flagged THEN "flagged" ELSE "clear",
                       !.ai = ai]
LinkResult(sb, ai) ==
    [NoResponse EXCEPT !.keys = {"type", "verdict", "safeBrowsing", "signals", "ai"},
                       !.type = "link",
                       !.verdict = IF sb.flagged THEN "likely scam"
                                   ELSE OrElse(ai.risk, "clear"),
                       !.safeBrowsing = IF sb.disabled THEN "disabled"
                                        ELSE IF sb.flagged THEN "flagged" ELSE "clear",
                       !.ai = ai]

\* res.status(s).json({ error })
ErrorResponse(s) == [NoResponse EXCEPT !.status = s, !.keys = {"error"}]

\* res.json({ cached: true, ...cached })
CachedResponse(d) ==
    [d EXCEPT !.status = 200, !.cached = TRUE, !.keys = @ \cup {"cached"}]

\* res.json({ mode: "url", url, ...out })
UrlResponse(url, out) ==
    [out EXCEPT !.status = 200, !.mode = "url", !.url = url,
                !.keys = @ \cup {"mode", "url"}]

\* res.json({ mode: "file", detected: "image_upload", verdict, exif, ai })
FileResponse(ai) ==
    [NoResponse EXCEPT !.status = 200, !.mode = "file", !.detected = "image_upload",
                       !.keys = {"mode", "detected", "verdict", "exif", "ai"},
                       !.verdict = OrElse(ai.verdict, "unverified"), !.ai = ai]

\* res.json({ mode: "text", detected: "claim", verdict, ai })
ClaimResponse(ai) ==
    [NoResponse EXCEPT !.status = 200, !.mode = "text", !.detected = "claim",
                       !.keys = {"mode", "detected", "verdict", "ai"},
                       !.verdict = OrElse(ai.verdict, "unverified"), !.ai = ai]

(***************************************************************************)
(* The handler, one action per stretch between awaits.                     *)
(***************************************************************************)
\* the last set of each key: its value, its expiry and who stored it
Stored(k, d, t, by) ==
    [x \in DOMAIN lastSet \cup {k} |->
        IF x = k THEN [d |-> d, t |-> t, by |-> by] ELSE lastSet[x]]

\* the response goes out and the activation ends
Respond(hr, res) ==
    [hr EXCEPT !.rpc = "done", !.res = res, !.sent = @ + 1,
               !.sb = NoSb, !.html = {}]

\* catch (e) { return res.status(500).json({ error: "Internal error" }) }
Uncaught(hr) == [hr EXCEPT !.rpc = "threw"]
Caught(hr) == Respond(hr, ErrorResponse(500))

UrlOf(inp) == normalizeUrl(Trim(inp.input))
KeyOf(inp) == CacheKey(UrlOf(inp), inp.context)

\* which branch of detectByUrl takes the url
TypeOfImageLast(url) ==
    IF isLikelyVideoUrl(url) THEN "video_url"
    ELSE IF isLikelyImageUrl(url) THEN "image_url"
    ELSE "link"
TypeOf(url) ==
    IF isLikelyImageUrl(url) THEN "image_url"
    ELSE IF isLikelyVideoUrl(url) THEN "video_url"
    ELSE "link"

\* the multer callback up to its first await
Handle(r, inp) ==
    LET hr == [h[r] EXCEPT !.req = inp]
        trimmed == Trim(inp.input)
        url == normalizeUrl(trimmed)
        key == CacheKey(url, inp.context)
        found == getCacheFound(cache, key, now)
    IN  /\ h[r].rpc = "new"
        /\ IF inp.uploadErr
           THEN /\ h' = [h EXCEPT ![r] = Respond(hr, ErrorResponse(400))]
                /\ UNCHANGED <<cache, got>>
           ELSE IF ~inp.file /\ ~inp.bodyOk
           THEN /\ h' = [h EXCEPT ![r] = Respond(hr, ErrorResponse(400))]
                /\ UNCHANGED <<cache, got>>
           ELSE IF inp.file
           THEN /\ h' = [h EXCEPT ![r] =
                         IF inp.readErr
                         THEN Caught([hr EXCEPT !.route = "file"])
                         ELSE [hr EXCEPT !.rpc = "exif", !.route = "file",
                                         !.collectorCalls = @ + 1]]
                /\ UNCHANGED <<cache, got>>
           ELSE IF url # <<>>
           THEN /\ cache' = getCacheLeaves(cache, key, now)
                /\ got' = [key |-> key, found |-> found,
                           d |-> getCacheValue(cache, key, now)]
                /\ h' = [h EXCEPT ![r] =
                         LET hg == [hr EXCEPT !.cacheGets = @ + 1]
                         IN  IF found
                             THEN Respond([hg EXCEPT !.route = "cache"],
                                          CachedResponse(getCacheValue(cache, key, now)))
                             ELSE IF TypeOf(url) = "link"
                             THEN [hg EXCEPT !.rpc = "sb", !.route = "link",
                                             !.collectorCalls = @ + 1]
                             ELSE [hg EXCEPT !.rpc = "ai", !.route = TypeOf(url),
                                             !.engineCalls = @ + 1]]
           ELSE IF trimmed = <<>>
           THEN /\ h' = [h EXCEPT ![r] = Respond(hr, ErrorResponse(400))]
                /\ UNCHANGED <<cache, got>>
           ELSE /\ h' = [h EXCEPT ![r] = [hr EXCEPT !.rpc = "ai", !.route = "text",
                                                    !.engineCalls = @ + 1]]
                /\ UNCHANGED <<cache, got>>
        /\ UNCHANGED <<GEMINI_KEY, evars, lvars, SB_KEY, now, lastSet>>

\* parseExifFromDataUrl resolves (it never throws); geminiVision is called
ExifDone(r) ==
    /\ h[r].rpc = "exif"
    /\ h' = [h EXCEPT ![r] = [@ EXCEPT !.rpc = "ai", !.engineCalls = @ + 1]]
    /\ UNCHANGED <<GEMINI_KEY, evars, lvars, SB_KEY, cache, now, lastSet, got>>

\* checkSafeBrowsing settles; inspectPage is called
SafeBrowsingDone(r) ==
    /\ h[r].rpc = "sb"
    /\ \E x \in SbFetches :
          LET s == checkSafeBrowsing(SB_KEY, x)
          IN  h' = [h EXCEPT ![r] =
                      IF s.op = "throw" THEN Caught(@)
                      ELSE [@ EXCEPT !.rpc = "page", !.sb = s.sb,
                                     !.collectorCalls = @ + 1]]
    /\ UNCHANGED <<GEMINI_KEY, evars, lvars, SB_KEY, cache, now, lastSet, got>>

\* inspectPage resolves; geminiText is called
PageDone(r) ==
    /\ h[r].rpc = "page"
    /\ \E t \in PageTexts :
          h' = [h EXCEPT ![r] = [@ EXCEPT !.rpc = "ai", !.html = t,
                                          !.engineCalls = @ + 1]]
    /\ UNCHANGED <<GEMINI_KEY, evars, lvars, SB_KEY, cache, now, lastSet, got>>

\* the prompt the activation sent
PromptOf(hr) ==
    CASE hr.route = "file" -> FilePrompt(hr.req.context)
      [] hr.route = "image_url" -> ImageUrlPrompt(UrlOf(hr.req), hr.req.context)
      [] hr.route = "video_url" -> VideoUrlPrompt(UrlOf(hr.req), hr.req.context)
      [] hr.route = "link" -> LinkPrompt(UrlOf(hr.req), hr.html, hr.req.context)
      [] OTHER -> ClaimPrompt(Trim(hr.req.input), hr.req.context)

\* what the engine can return to the activation
EngineOutcomes(hr) ==
    IF hr.route = "file" THEN geminiVision(GEMINI_KEY, PromptOf(hr))
    ELSE geminiText(GEMINI_KEY, PromptOf(hr))

\* what detectByUrl returns
DetectResult(hr, ai) ==
    CASE hr.route = "image_url" -> ImageUrlResult(ai)
      [] hr.route = "video_url" -> VideoUrlResult(ai)
      [] OTHER -> LinkResult(hr.sb, ai)

\* the engine returns; the rest of the handler runs to its response
EngineDone(r) ==
    /\ h[r].rpc = "ai"
    /\ \E ai \in UNION {Replies(o) : o \in EngineOutcomes(h[r])} :
          LET hr == h[r]
              out == DetectResult(hr, ai)
          IN  IF hr.route = "file"
              THEN /\ h' = [h EXCEPT ![r] = Respond(hr, FileResponse(ai))]
                   /\ UNCHANGED <<cache, lastSet>>
              ELSE IF hr.route = "text"
              THEN /\ h' = [h EXCEPT ![r] = Respond(hr, ClaimResponse(ai))]
                   /\ UNCHANGED <<cache, lastSet>>
              ELSE /\ cache' = setCache(cache, KeyOf(hr.req), out, DefaultTtl, now)
                   /\ lastSet' = Stored(KeyOf(hr.req), out, now + DefaultTtl, r)
                   /\ h' = [h EXCEPT ![r] =
                              Respond([hr EXCEPT !.cacheSets = @ + 1],
                                      UrlResponse(UrlOf(hr.req), out))]
    /\ UNCHANGED <<GEMINI_KEY, evars, lvars, SB_KEY, now, got>>

\* Date.now() advances, by a millisecond or by the time to live; the clock is
\* read within MaxTicks milliseconds of the start and of the time to live
Tick ==
    /\ \E d \in TickSteps :
          /\ now + d <= DefaultTtl + MaxTicks
          /\ (now + d) % DefaultTtl <= MaxTicks
          /\ now' = now + d
    /\ UNCHANGED <<GEMINI_KEY, evars, lvars, SB_KEY, h, cache, lastSet, got>>

EngineIdle ==
    /\ fn = "geminiText" /\ prompt = {} /\ retries = DefaultRetries
    /\ pc = "call" /\ i = 0 /\ posts = 0 /\ inflight = 0 /\ timer = 0
    /\ waits = <<>> /\ log = <<>> /\ outcome = NoOutcome

(***************************************************************************)
(* One request of any kind.                                                *)
(***************************************************************************)
Contexts == {<<>>, <<"headline">>, <<"image">>}
RouteTexts ==
    {<<>>, <<" ">>, <<"some", "image">>, <<"ftp:", "host", "page">>,
     <<"https:", "host", "page">>, <<" ", "HTTPS:", "HOST", "page", " ">>,
     <<"https:", "host", ".png">>, <<"https:", "youtube.com", "v">>,
     <<"https:", "youtube.com", ".png">>, <<"http:", "host", ".mp4">>}
RouteInputs ==
    {[NoInput EXCEPT !.uploadErr = TRUE], [NoInput EXCEPT !.bodyOk = FALSE],
     [NoInput EXCEPT !.bodyOk = FALSE, !.input = <<"https:", "host", "page">>]}
    \cup {[NoInput EXCEPT !.file = TRUE, !.readErr = e, !.bodyOk = b, !.input = t]
            : e \in BOOLEAN, b \in BOOLEAN, t \in {<<>>, <<"https:", "host", "page">>}}
    \cup {[NoInput EXCEPT !.input = t, !.context = c] : t \in RouteTexts, c \in Contexts}

RouteInit ==
    /\ GEMINI_KEY \in Keys
    /\ SB_KEY \in BOOLEAN
    /\ EngineIdle
    /\ h = [r \in Requests |-> NewReq]
    /\ cache = <<>> /\ now = 0 /\ lastSet = <<>> /\ got = NoGet
    /\ LimiterIdle

Post(r) ==
    /\ \A q \in Requests : h[q].rpc = "new"
    /\ \E inp \in RouteInputs : Handle(r, inp)

RouteNext ==
    \E r \in Requests :
        \/ Post(r)
        \/ ExifDone(r)
        \/ SafeBrowsingDone(r)
        \/ PageDone(r)
        \/ EngineDone(r)

RouteSpec == RouteInit /\ [][RouteNext]_vars

\* a collaborator that an activation awaits settles
Settles(r) == ExifDone(r) \/ SafeBrowsingDone(r) \/ PageDone(r) \/ EngineDone(r)

(***************************************************************************)
(* Two requests that may overlap, and the clock.                           *)
(***************************************************************************)
RaceInputs ==
    {[NoInput EXCEPT !.input = <<"https:", "host", "page">>],
     [NoInput EXCEPT !.input = <<" ", "HTTPS:", "HOST", "page", " ">>],
     [NoInput EXCEPT !.input = <<"https:", "host", "page">>, !.context = <<"headline">>],
     [NoInput EXCEPT !.file = TRUE, !.input = <<"https:", "host", "page">>],
     [NoInput EXCEPT !.input = <<"some", "image">>]}

RaceInit ==
    /\ GEMINI_KEY = "real-key"
    /\ SB_KEY = FALSE
    /\ EngineIdle
    /\ h = [r \in Requests |-> NewReq]
    /\ cache = <<>> /\ now = 0 /\ lastSet = <<>> /\ got = NoGet
    /\ LimiterIdle

Arrive(r) == \E inp \in RaceInputs : Handle(r, inp)

RaceNext ==
    \/ \E r \in Requests :
          \/ Arrive(r)
          \/ ExifDone(r)
          \/ SafeBrowsingDone(r)
          \/ PageDone(r)
          \/ EngineDone(r)
    \/ Tick

RaceSpec == RaceInit /\ [][RaceNext]_vars

(***************************************************************************)
(* The cache on its own: any sequence of set, get and clock advances.      *)
(***************************************************************************)
CacheKeys ==
    {CacheKey(<<"https:", "host", "page">>, <<>>),
     CacheKey(<<"https:", "host", ".png">>, <<>>)}
CacheValues ==
    {LinkResult(NoSb, WithMock(mockFromPrompt({}))),
     ImageUrlResult(WithMock(mockFromPrompt({"image"})))}
Ttls == {0, DefaultTtl}

CacheInit ==
    /\ GEMINI_KEY = ""
    /\ SB_KEY = FALSE
    /\ EngineIdle
    /\ h = [r \in Requests |-> NewReq]
    /\ cache = <<>> /\ now = 0 /\ lastSet = <<>> /\ got = NoGet
    /\ LimiterIdle

CacheSet(k, d, ttl) ==
    /\ cache' = setCache(cache, k, d, ttl, now)
    /\ lastSet' = Stored(k, d, now + ttl, "r1")
    /\ UNCHANGED <<GEMINI_KEY, evars, lvars, SB_KEY, h, now, got>>

CacheGet(k) ==
    /\ cache' = getCacheLeaves(cache, k, now)
    /\ got' = [key |-> k, found |-> getCacheFound(cache, k, now),
               d |-> getCacheValue(cache, k, now)]
    /\ UNCHANGED <<GEMINI_KEY, evars, lvars, SB_KEY, h, now, lastSet>>

CacheNext ==
    \/ \E k \in CacheKeys, d \in CacheValues, ttl \in Ttls : CacheSet(k, d, ttl)
    \/ \E k \in CacheKeys : CacheGet(k)
    \/ Tick

CacheSpec == CacheInit /\ [][CacheNext]_vars

(***************************************************************************)
(* The in-memory rate limiter (src/unnamed/part_000): the middleware that  *)
(* rateLimit() returns, run once per request, and the clock.               *)
(***************************************************************************)
MaxLimit == 2
MaxHits == 5

\* req.ip
Ips == {"a", "b"}

\* hits.get(ip) || { count: 0, start: now }
EntryOf(m, ip, t) == IF ip \in DOMAIN m THEN m[ip] ELSE [count |-> 0, start |-> t]

\* if (now - entry.start > windowMs) { entry.count = 0; entry.start = now; }
WindowOverAtEdge(t, start) == t - start >= DefaultWindowMs
WindowOver(t, start) == t - start > DefaultWindowMs
Windowed(e, t) == IF WindowOver(t, e.start) THEN [count |-> 0, start |-> t] ELSE e

\* entry.count += 1
Counted(m, ip, t) == [Windowed(EntryOf(m, ip, t), t) EXCEPT !.count = @ + 1]

\* if (entry.count > max) return res.status(429)...; next();
OverLimitAtMax(count, limit) == count >= limit
OverLimit(count, limit) == count > limit

LimitInit ==
    /\ GEMINI_KEY = ""
    /\ EngineIdle
    /\ ServerIdle
    /\ max \in (1..MaxLimit) \cup {DefaultMax}
    /\ hits = <<>>
    /\ hitLog = <<>>

\* one request of ip goes through the middleware
RateLimit(ip) ==
    /\ Len(hitLog) < MaxHits
    /\ hits' = [x \in DOMAIN hits \cup {ip} |->
                   IF x = ip THEN Counted(hits, ip, now) ELSE hits[x]]
    /\ hitLog' = Append(hitLog, [ip |-> ip, at |-> now,
                                 passed |-> ~OverLimit(Counted(hits, ip, now).count, max)])
    /\ UNCHANGED <<GEMINI_KEY, evars, svars, max>>

\* Date.now() advances, by a millisecond or by the window; the clock is read
\* within MaxTicks milliseconds of the start and of the window length
LimitTick ==
    /\ \E d \in {1, DefaultWindowMs} :
          /\ now + d <= DefaultWindowMs + MaxTicks
          /\ (now + d) % DefaultWindowMs <= MaxTicks
          /\ now' = now + d
    /\ UNCHANGED <<GEMINI_KEY, evars, lvars, SB_KEY, h, cache, lastSet, got>>

LimitNext ==
    \/ \E ip \in Ips : RateLimit(ip)
    \/ LimitTick

LimitSpec == LimitInit /\ [][LimitNext]_vars

(***************************************************************************)
(* Vocabulary of the handler properties.                                   *)
(***************************************************************************)
Done(r) == h[r].rpc = "done"
Answered200(r) == Done(r) /\ h[r].res.status = 200
UrlTypes == {"image_url", "video_url", "link"}
NoCalls(r) == h[r].engineCalls = 0 /\ h[r].collectorCalls = 0

\* the branch the stated precedence gives a request
Precedence(inp) ==
    IF inp.file THEN "file"
    ELSE IF UrlOf(inp) # <<>>
    THEN IF isLikelyImageUrl(UrlOf(inp)) THEN "image_url"
         ELSE IF isLikelyVideoUrl(UrlOf(inp)) THEN "video_url"
         ELSE "link"
    ELSE IF Trim(inp.input) # <<>> THEN "text"
    ELSE "reject"

Dispatched(r) ==
    IF Precedence(h[r].req) = "reject"
    THEN Done(r) /\ h[r].res.status = 400 /\ NoCalls(r) /\ h[r].route = ""
    ELSE h[r].route = Precedence(h[r].req) /\ h[r].engineCalls <= 1

\* rejected before the dispatch: the upload failed, or there is no file and
\* the body does not fit the schema
RejectedEarly(inp) == inp.uploadErr \/ (~inp.file /\ ~inp.bodyOk)

(***************************************************************************)
(* C15 as stated.  Every request is dispatched by the precedence file, URL *)
(* (image, else video, else link), text, else 400 without any call.        *)
(***************************************************************************)
C15_Precedence == \A r \in Requests : h[r].rpc # "new" => Dispatched(r)

(***************************************************************************)
(* C15 amended.  A request whose upload failed, or which has no file and   *)
(* whose body fails validation, is rejected with 400 before the dispatch   *)
(* without any call, whatever its input is; every other request is         *)
(* dispatched by the precedence file, URL (image, else video, else link),  *)
(* text, else 400 without any call.                                        *)
(***************************************************************************)
C15_ValidatedPrecedence ==
    \A r \in Requests :
        h[r].rpc # "new" =>
            IF RejectedEarly(h[r].req)
            THEN Done(r) /\ h[r].res.status = 400 /\ NoCalls(r) /\ h[r].route = ""
            ELSE Dispatched(r)
C15_Witness ==
    \E r \in Requests :
        /\ Answered200(r) /\ h[r].route = "image_url" /\ h[r].res.type = "image_url"
        /\ isLikelyVideoUrl(UrlOf(h[r].req))

(***************************************************************************)
(* C18.  When the handler builds the result of a generic link: if the Safe *)
(* Browsing check reported flagged, the verdict is "likely scam" and       *)
(* safeBrowsing is "flagged" whatever the engine returned; if it did not,  *)
(* the verdict is the engine's risk, "clear" when the outcome has none.    *)
(***************************************************************************)
C18_FlaggedWins ==
    [][\A r \in Requests :
          (h[r].rpc = "ai" /\ h[r].route = "link" /\ h'[r].rpc # "ai") =>
              /\ h'[r].rpc = "done" /\ h'[r].res.status = 200
              /\ IF h[r].sb.flagged
                 THEN /\ h'[r].res.verdict = "likely scam"
                      /\ h'[r].res.safeBrowsing = "flagged"
                 ELSE /\ h'[r].res.verdict = OrElse(h'[r].res.ai.risk, "clear")
                      /\ h'[r].res.safeBrowsing # "flagged"]_vars
C18_Witness ==
    \E r \in Requests :
        /\ Answered200(r) /\ h[r].route = "link"
        /\ h[r].res.safeBrowsing = "flagged" /\ h[r].res.verdict = "likely scam"
        /\ IsParsed(h[r].res.ai) /\ h[r].res.ai.risk = "safe"

(***************************************************************************)
(* C13.  A request whose engine outcome carries _error is answered 200     *)
(* with that outcome as ai and with a neutral verdict, one that asserts    *)
(* neither safety nor risk (a link that Safe Browsing flagged keeps the    *)
(* verdict of C18).                                                        *)
(***************************************************************************)
NeutralVerdicts == {"unverified", "uncertain"}
C13_ErrorDegradesToNeutral ==
    \A r \in Requests :
        (Done(r) /\ IsHardError(h[r].res.ai)) =>
            /\ h[r].res.status = 200 /\ "ai" \in h[r].res.keys
            /\ h[r].res.safeBrowsing # "flagged" => h[r].res.verdict \in NeutralVerdicts

(***************************************************************************)
(* C11.  In mock mode the mock verdict of an answered request has the      *)
(* shape of the branch that handled it, whatever the context, the URL text *)
(* and the page are.                                                       *)
(***************************************************************************)
ShapeOf(route) ==
    CASE route = "text" -> {"verdict", "checks", "what_to_collect", "advice"}
      [] route \in {"image_url", "file"} -> {"verdict", "indicators", "advice"}
      [] OTHER -> {"risk", "signals", "advice"}
C11_MockShapeOfRoute ==
    \A r \in Requests :
        (NoCredential /\ Answered200(r) /\ h[r].route # "cache") =>
            h[r].res.ai.keys \ {"_mock"} = ShapeOf(h[r].route)

(***************************************************************************)
(* C14.  Every request that has arrived is answered exactly once, with     *)
(* 200, 400 or 500, whatever the collaborators return or throw: no         *)
(* exception escapes the handler, an answered request stays as it is, and  *)
(* an unanswered one is waiting for a collaborator whose settling is a     *)
(* possible step that decreases AwaitsLeft, which is never negative.       *)
(***************************************************************************)
AwaitsLeft(hr) ==
    CASE hr.rpc = "new" -> 4
      [] hr.rpc = "sb" -> 3
      [] hr.rpc \in {"exif", "page"} -> 2
      [] hr.rpc = "ai" -> 1
      [] OTHER -> 0
C14_Safe ==
    \A r \in Requests :
        /\ h[r].rpc # "threw"
        /\ h[r].sent = IF Done(r) THEN 1 ELSE 0
        /\ Done(r) => h[r].res.status \in {200, 400, 500}
        /\ Done(r) => (h[r].res.status = 200 <=> "verdict" \in h[r].res.keys)
        /\ h[r].rpc \notin {"new", "done"} => ENABLED Settles(r)
C14_OneResponse ==
    /\ []C14_Safe
    /\ [][\A r \in Requests :
             /\ Done(r) => h'[r] = h[r]
             /\ h'[r] # h[r] => AwaitsLeft(h'[r]) < AwaitsLeft(h[r])]_vars
C14_Witness ==
    \E r \in Requests :
        /\ Done(r) /\ h[r].sent = 1 /\ h[r].res.status = 500
        /\ h[r].route = "link" /\ h[r].collectorCalls = 1

(***************************************************************************)
(* C16.  After any sequence of sets, gets and clock advances, get(k)       *)
(* returns a value exactly when k was set and the time is not past the     *)
(* expiry of its most recent set, and the value is the one of that set;    *)
(* a get that finds its entry expired removes it, and a get changes no     *)
(* entry of another key.                                                   *)
(***************************************************************************)
Live(k) == k \in DOMAIN lastSet /\ now <= lastSet[k].t
C16_GetReturnsLive ==
    \A k \in CacheKeys :
        /\ getCacheFound(cache, k, now) <=> Live(k)
        /\ Live(k) => getCacheValue(cache, k, now) = lastSet[k].d
C16_LazyExpiry ==
    /\ []C16_GetReturnsLive
    /\ [][\A k \in CacheKeys :
             CacheGet(k) =>
                 /\ got'.found <=> Live(k)
                 /\ got'.found => got'.d = lastSet[k].d
                 /\ ~Live(k) => k \notin DOMAIN cache'
                 /\ Live(k) => (k \in DOMAIN cache' /\ cache'[k] = cache[k])
                 /\ \A j \in CacheKeys \ {k} :
                       /\ j \in DOMAIN cache' <=> j \in DOMAIN cache
                       /\ j \in DOMAIN cache => cache'[j] = cache[j]]_vars
C16_Witness ==
    /\ got.key \in DOMAIN lastSet /\ ~got.found /\ now > lastSet[got.key].t
    /\ got.key \notin DOMAIN cache
    /\ \E j \in CacheKeys \ {got.key} : j \in DOMAIN cache /\ now > cache[j].t

(***************************************************************************)
(* Vocabulary of the cache properties of the handler.                      *)
(***************************************************************************)
IsUrlRequest(inp) == ~RejectedEarly(inp) /\ ~inp.file /\ UrlOf(inp) # <<>>
SameTarget(a, b) == UrlOf(a) = UrlOf(b) /\ a.context = b.context
Detected(r) == Answered200(r) /\ h[r].route \in UrlTypes
FromCache(r) == Answered200(r) /\ h[r].res.cached

\* the detection result inside a response
ResultOf(res) ==
    [res EXCEPT !.status = 0, !.mode = "", !.url = <<>>, !.cached = FALSE,
                !.keys = @ \ {"mode", "url", "cached"}]
Complete(d) == {"type", "verdict", "ai"} \subseteq d.keys /\ d.type \in UrlTypes

(***************************************************************************)
(* C12.  Every 200 response has a mode, and every 200 response to a URL    *)
(* input has a type among image_url, video_url and link, also when it is   *)
(* served from the cache.                                                  *)
(***************************************************************************)
C12_ModeAndType ==
    \A r \in Requests :
        Answered200(r) =>
            /\ "mode" \in h[r].res.keys
            /\ IsUrlRequest(h[r].req) =>
                  ("type" \in h[r].res.keys /\ h[r].res.type \in UrlTypes)

(***************************************************************************)
(* C19.  A request for a URL that arrives while another request for the    *)
(* same normalized URL and context is in flight and has not stored its     *)
(* result misses the cache and runs the detection itself.  When two        *)
(* requests for the same URL and context have both run the detection,      *)
(* each made its own collector and engine calls and stored once, and the   *)
(* cache holds the result of the one that stored last.  Every entry of the *)
(* cache, and every response served from it, is a complete result.         *)
(***************************************************************************)
InFlight(q) == h[q].rpc \in {"sb", "page", "ai"} /\ h[q].cacheSets = 0
C19_State ==
    /\ \A k \in DOMAIN cache :
          /\ Complete(cache[k].d)
          /\ k \in DOMAIN lastSet /\ cache[k] = [d |-> lastSet[k].d, t |-> lastSet[k].t]
    /\ \A r \in Requests : FromCache(r) => Complete(h[r].res)
    /\ \A r, q \in Requests :
          (r # q /\ Detected(r) /\ Detected(q) /\ SameTarget(h[r].req, h[q].req)) =>
              LET k == KeyOf(h[r].req)
              IN  /\ h[r].engineCalls = 1 /\ h[r].cacheSets = 1
                  /\ h[r].route = "link" => h[r].collectorCalls = 2
                  /\ k \in DOMAIN cache
                  /\ cache[k].d = ResultOf(h[lastSet[k].by].res)
C19_CheckThenAct ==
    /\ []C19_State
    /\ [][\A r, q \in Requests :
             (/\ r # q /\ h[r].rpc = "new" /\ h'[r].rpc # "new"
              /\ IsUrlRequest(h'[r].req) /\ InFlight(q)
              /\ SameTarget(h'[r].req, h[q].req)) =>
                 /\ h'[r].route \in UrlTypes /\ h'[r].rpc \in {"sb", "ai"}
                 /\ h'[r].sent = 0]_vars
C19_Witness ==
    /\ now = 0
    /\ Detected("r1") /\ Detected("r2") /\ SameTarget(h["r1"].req, h["r2"].req)
    /\ h["r1"].req.input # h["r2"].req.input
    /\ h["r1"].res.ai # h["r2"].res.ai
    /\ lastSet[KeyOf(h["r1"].req)].by = "r1"
    /\ cache[KeyOf(h["r1"].req)].d.ai = h["r1"].res.ai

(***************************************************************************)
(* C20.  When a URL detection finishes, its result is in the cache under   *)
(* the key of its normalized URL and context with the default time to      *)
(* live, whatever the engine outcome is.  A request for a URL and context  *)
(* whose result was stored and has not expired is answered at once from    *)
(* the cache, with that result and without any collector or engine call;   *)
(* a response served from the cache is the result that a request with the  *)
(* same key stored.  Uploads and text claims neither read nor write the    *)
(* cache.                                                                  *)
(***************************************************************************)
C20_State ==
    \A r \in Requests :
        /\ h[r].route \in {"file", "text"} => (h[r].cacheGets = 0 /\ h[r].cacheSets = 0)
        /\ FromCache(r) =>
              /\ NoCalls(r) /\ h[r].cacheSets = 0
              /\ \E q \in Requests \ {r} :
                    /\ Detected(q) /\ KeyOf(h[q].req) = KeyOf(h[r].req)
                    /\ ResultOf(h[q].res) = ResultOf(h[r].res)
C20_CachedResults ==
    /\ []C20_State
    /\ [][\A r \in Requests :
             /\ (h[r].rpc = "ai" /\ h[r].route \in UrlTypes /\ h'[r].rpc # "ai") =>
                   LET k == <<"url:">> \o UrlOf(h[r].req) \o <<":">> \o h[r].req.context
                   IN  /\ Detected(r)'
                       /\ k \in DOMAIN cache'
                       /\ cache'[k] = [d |-> ResultOf(h'[r].res), t |-> now + DefaultTtl]
                       /\ \A j \in DOMAIN cache \ {k} : j \in DOMAIN cache' /\ cache'[j] = cache[j]
             /\ (h'[r] # h[r] /\ h'[r].route \in {"file", "text"}) => cache' = cache
             /\ \A q \in Requests \ {r} :
                   (/\ h[r].rpc = "new" /\ h'[r].rpc # "new" /\ IsUrlRequest(h'[r].req)
                    /\ Detected(q) /\ SameTarget(h[q].req, h'[r].req)
                    /\ now <= lastSet[KeyOf(h[q].req)].t) =>
                       /\ FromCache(r)'
                       /\ ResultOf(h'[r].res) = ResultOf(h[q].res)
                       /\ h'[r].engineCalls = 0 /\ h'[r].collectorCalls = 0]_vars
C20_Witness ==
    \E r \in Requests :
        /\ FromCache(r) /\ NoCalls(r) /\ IsHardError(h[r].res.ai)
        /\ now >= DefaultTtl

(***************************************************************************)
(* C22.  With a credential configured: a loop iteration that does not      *)
(* return sleeps only when an attempt remains after it, so with            *)
(* maxAttempts >= 1 the loop is never left without a return; the fallback  *)
(* tagged "unknown" is what the call returns exactly when maxAttempts is   *)
(* 0, and then it is a mock verdict returned without any upstream call     *)
(* and without any wait.                                                   *)
(***************************************************************************)
C22_UnknownOnlyWithoutAttempts ==
    ~NoCredential =>
        /\ pc = "sleep" => i + 1 < retries
        /\ (pc = "loop" /\ retries >= 1) => i < retries
        /\ Returned => (outcome._fallback = "unknown" <=> retries = 0)
        /\ (Returned /\ outcome._fallback = "unknown") =>
              /\ posts = 0 /\ log = <<>> /\ waits = <<>>
              /\ IsMockVerdict(outcome) /\ ~outcome._mock
              /\ outcome = WithFallback(mockFromPrompt(prompt), "unknown")
C22_Witness ==
    /\ Returned /\ ~NoCredential /\ retries = 0
    /\ outcome._fallback = "unknown" /\ posts = 0
    /\ "headline" \in prompt /\ "checks" \in outcome.keys

(***************************************************************************)
(* C21.  For each client IP, the requests of that IP alone determine its   *)
(* windows: a window starts with the first request of the IP and with      *)
(* each request that arrives more than windowMs after the start of the     *)
(* window before it.  The n-th request of a window is passed on when       *)
(* n <= max and answered 429 otherwise, so at most max requests of a       *)
(* window are passed and the request that starts a window is passed; the   *)
(* Map holds, per IP, the start of its current window and the number of    *)
(* requests in it.                                                         *)
(***************************************************************************)
\* the start of the window of ip after the first n requests (-1: none yet)
RECURSIVE WindowStart(_, _)
WindowStart(ip, n) ==
    IF n = 0 THEN -1
    ELSE LET e == hitLog[n]
             before == WindowStart(ip, n - 1)
         IN  IF e.ip # ip THEN before
             ELSE IF before = -1 \/ e.at > before + DefaultWindowMs THEN e.at
             ELSE before

\* the requests of ip among the first n that fall in the window current at n
InWindow(ip, n) ==
    {m \in 1..n : hitLog[m].ip = ip /\ WindowStart(ip, m) = WindowStart(ip, n)}

C21_FixedWindow ==
    /\ \A n \in 1..Len(hitLog) :
          LET ip == hitLog[n].ip
          IN  /\ hitLog[n].passed <=> Cardinality(InWindow(ip, n)) <= max
              /\ Cardinality({m \in InWindow(ip, n) : hitLog[m].passed}) <= max
              /\ Cardinality(InWindow(ip, n)) = 1 => hitLog[n].passed
    /\ \A ip \in Ips :
          IF WindowStart(ip, Len(hitLog)) = -1 THEN ip \notin DOMAIN hits
          ELSE /\ ip \in DOMAIN hits
               /\ hits[ip] = [count |-> Cardinality(InWindow(ip, Len(hitLog))),
                              start |-> WindowStart(ip, Len(hitLog))]
C21_Witness ==
    /\ max = 2 /\ Len(hitLog) = 5
    /\ \A n \in 1..4 : hitLog[n].ip = "a" /\ hitLog[n].at <= DefaultWindowMs
    /\ hitLog[2].passed /\ ~hitLog[3].passed /\ ~hitLog[4].passed
    /\ hitLog[5] = [ip |-> "a", at |-> DefaultWindowMs + 1, passed |-> TRUE]
    /\ hits["a"] = [count |-> 1, start |-> DefaultWindowMs + 1]
====
